---------------------------- MODULE Spec2Model ----------------------------
(***************************************************************************)
(* A model of infra/index.ts of pulumi-aws-org-required-tags: the Pulumi   *)
(* program that reads the stack configuration (requiredTags,               *)
(* enforcementMode), builds the AWS Organizations tag policy document,     *)
(* registers the policy resource with the JSON serialization of the        *)
(* document and attaches it to the organization root.                      *)
(*                                                                         *)
(* The module body of index.ts runs top to bottom, one statement at a      *)
(* time; pc names the statement that runs next.  The module body is        *)
(* synchronous: the engine acts on the registered resources only once it   *)
(* has run to its end.                                                     *)
(*                                                                         *)
(* JavaScript values are modelled as follows.                              *)
(*   - string | undefined : <<>> for undefined, <<s>> for the string s.    *)
(*   - an object          : the sequence of its own enumerable properties  *)
(*                          [key, value] in property order.  No name of    *)
(*                          the input domain is an integer index, so the   *)
(*                          property order is the insertion order.         *)
(*   - a JSON value       : a record [type, str, items, members], see      *)
(*                          JString, JArray, JObject.                      *)
(***************************************************************************)
EXTENDS Naturals, Sequences, FiniteSets, TLC

VARIABLES
    cfgRequiredTags,     \* stack configuration, key "requiredTags": <<>> or <<JSON members>>
    cfgEnforcementMode,  \* stack configuration, key "enforcementMode": <<>> or <<string>>
    pc,                  \* the statement of index.ts that runs next
    requiredTags,        \* const requiredTags
    enforcementMode,     \* const enforcementMode
    enforcedForKey,      \* const enforcedForKey
    tagPolicyContent,    \* const tagPolicyContent (a JSON value)
    tagPolicy,           \* the registered Policy resource: <<>> or <<its arguments>>
    org,                 \* const org: <<>> or <<[roots]>>
    policyAttachment,    \* the registered PolicyAttachment: <<>> or <<its arguments>>
    exports,             \* the stack outputs: <<>> or <<record>>
    awsPolicy,           \* the policy the engine created: <<>> or <<[id, args]>>
    awsAttachment        \* the attachment the engine made: <<>> or <<[policyId, targetId]>>

vars == <<cfgRequiredTags, cfgEnforcementMode, pc, requiredTags,
          enforcementMode, enforcedForKey, tagPolicyContent, tagPolicy, org,
          policyAttachment, exports, awsPolicy, awsAttachment>>

-----------------------------------------------------------------------------
(* Bounds and input domains                                                *)

\* The largest number of members in the requiredTags configuration value.
MaxLabels == 2

\* Label names the configuration may hold: two ordinary names, the empty
\* name, and the one name that is an accessor of Object.prototype.
LabelNames == {"Environment", "Owner", "", "__proto__"}

\* Allowed-value lists the configuration may hold.
ValueLists == {<<>>, <<"Dev", "Prod">>, <<"Prod", "Dev">>, <<" ">>}

\* Values of the enforcementMode configuration key.
ModeStrings == {"", "detective", "preventive", "report", "enforce", "enforcd"}

\* Results of the organization lookup: the ids of the roots, one or none.
OrgRootsInputs == {<<"r-root">>, <<>>}

Undefined == <<>>

Some(v) == <<v>>

-----------------------------------------------------------------------------
(* JavaScript objects and JSON values                                      *)

Member(k, v) == [key |-> k, value |-> v]

JString(s) == [type |-> "string", str |-> s, items |-> <<>>, members |-> <<>>]

JArray(xs) == [type |-> "array", str |-> "", items |-> xs, members |-> <<>>]

JObject(ms) == [type |-> "object", str |-> "", items |-> <<>>, members |-> ms]

Keys(ms) == [i \in DOMAIN ms |-> ms[i].key]

HasKey(ms, k) == \E i \in DOMAIN ms : ms[i].key = k

Get(ms, k) == ms[CHOOSE i \in DOMAIN ms : ms[i].key = k].value

\* CreateDataProperty, as JSON.parse and an object literal define a property:
\* an existing key keeps its place and takes the new value.
DefineProperty(ms, k, v) ==
    IF HasKey(ms, k)
    THEN [i \in DOMAIN ms |-> IF ms[i].key = k THEN Member(k, v) ELSE ms[i]]
    ELSE Append(ms, Member(k, v))

\* JSON.parse of an object text whose members are raw, in text order.
RECURSIVE JsonParseObject(_)
JsonParseObject(raw) ==
    IF raw = <<>> THEN <<>>
    ELSE LET n == Len(raw)
         IN  DefineProperty(JsonParseObject(SubSeq(raw, 1, n - 1)),
                            raw[n].key, raw[n].value)

-----------------------------------------------------------------------------
(* index.ts, lines 9-27: the configuration                                 *)

\* The built-in required tags, used when the configuration has none.
DefaultRequiredTags ==
    << Member("Environment", <<"Development", "Staging", "Production">>),
       Member("Owner", <<>>),
       Member("CostCenter", <<>>),
       Member("Project", <<>>) >>

\* config.getObject("requiredTags"): undefined when the key is not set,
\* otherwise the parsed object.
GetObject(cfg) ==
    IF cfg = Undefined THEN Undefined ELSE Some(JsonParseObject(cfg[1]))

\* A variant of RequiredTagsOf that also replaces an empty object.
RequiredTagsOf_EmptyFallsBack(cfg) ==
    IF GetObject(cfg) = Undefined \/ GetObject(cfg)[1] = <<>>
    THEN DefaultRequiredTags ELSE GetObject(cfg)[1]

\* config.getObject(...) || { defaults }: an object, even an empty one, is
\* truthy; only undefined takes the right operand.
RequiredTagsOf(cfg) ==
    IF GetObject(cfg) = Undefined THEN DefaultRequiredTags ELSE GetObject(cfg)[1]

\* A variant of EnforcementModeOf without the default: a missing value stays
\* undefined, which the template literal of the description prints as such.
EnforcementModeOf_NoDefault(cfg) ==
    IF cfg = Undefined THEN "undefined" ELSE cfg[1]

\* A variant of EnforcementModeOf whose default is the blocking mode.
EnforcementModeOf_PreventiveDefault(cfg) ==
    IF cfg = Undefined \/ cfg[1] = "" THEN "preventive" ELSE cfg[1]

\* config.get("enforcementMode") || "detective": undefined and the empty
\* string are falsy and take the right operand.
EnforcementModeOf(cfg) ==
    IF cfg = Undefined \/ cfg[1] = "" THEN "detective" ELSE cfg[1]

-----------------------------------------------------------------------------
(* index.ts, lines 35-80: the services that support tag policies           *)

SUPPORTED_SERVICES ==
    << "access-analyzer", "apigateway", "appmesh", "appstream", "athena",
       "cloudformation", "cloudfront", "cloudtrail", "cloudwatch",
       "codebuild", "codecommit", "codepipeline", "config", "dynamodb",
       "ec2", "ecr", "ecs", "elasticfilesystem", "eks", "elasticbeanstalk",
       "elasticache", "elasticloadbalancing", "es", "events", "fsx", "glue",
       "iam", "kinesis", "kms", "lambda", "logs", "rds", "redshift",
       "route53", "s3", "sagemaker", "secretsmanager", "sns", "sqs",
       "states", "ssm", "waf", "wafv2", "workspaces" >>

-----------------------------------------------------------------------------
(* index.ts, lines 90-114: the tag policy document                         *)

ReportKey == "*@@report_required_tag_for*"

EnforceKey == "enforced_for"

\* A variant of EnforcedForKeyOf with the two branches exchanged.
EnforcedForKeyOf_Swapped(mode) ==
    IF mode = "detective" THEN EnforceKey ELSE ReportKey

\* enforcementMode === "detective" ? report key : enforce key
EnforcedForKeyOf(mode) ==
    IF mode = "detective" THEN ReportKey ELSE EnforceKey

\* A variant of AllSupported that gives the wildcard for every service.
AllSupported_Wildcard(service) == "*@@all_supported*"

\* A variant of AllSupported that leaves the service out of the token.
AllSupported_DropsService(service) == "ALL_SUPPORTED"

\* service => `${service}:ALL_SUPPORTED`
AllSupported(service) == service \o ":ALL_SUPPORTED"

\* A variant of ServiceTokens: the single wildcard instead of the mapped list.
ServiceTokens_Wildcard == <<"*@@all_supported*">>

\* SUPPORTED_SERVICES.map(service => `${service}:ALL_SUPPORTED`)
ServiceTokens ==
    [i \in DOMAIN SUPPORTED_SERVICES |-> AllSupported(SUPPORTED_SERVICES[i])]

Strings(xs) == [i \in DOMAIN xs |-> JString(xs[i])]

Assign(v) == JObject(<<Member("@@assign", v)>>)

\* ...(allowedValues.length > 0 && { tag_value: { "@@assign": allowedValues } }):
\* spreading false adds no property.
TagValueSpread(allowedValues) ==
    IF Len(allowedValues) > 0
    THEN <<Member("tag_value", Assign(JArray(Strings(allowedValues))))>>
    ELSE <<>>

\* A variant of TagEntry that leaves tag_value out of an enforce entry.
TagEntry_EnforceDropsValues(tagKey, allowedValues, forKey) ==
    JObject( <<Member("tag_key", Assign(JString(tagKey)))>>
             \o (IF forKey = EnforceKey THEN <<>> ELSE TagValueSpread(allowedValues))
             \o <<Member(forKey, Assign(JArray(Strings(ServiceTokens))))>> )

\* A variant of TagEntry in which a label without allowed values is always
\* reported, whatever the field name selected for the run.
TagEntry_UnrestrictedReports(tagKey, allowedValues, forKey) ==
    JObject( <<Member("tag_key", Assign(JString(tagKey)))>>
             \o TagValueSpread(allowedValues)
             \o <<Member(IF Len(allowedValues) > 0 THEN forKey ELSE "*@@report_required_tag_for*",
                         Assign(JArray(Strings(ServiceTokens))))>> )

\* The object literal assigned to acc[tagKey].
TagEntry(tagKey, allowedValues, forKey) ==
    JObject( <<Member("tag_key", Assign(JString(tagKey)))>>
             \o TagValueSpread(allowedValues)
             \o <<Member(forKey, Assign(JArray(Strings(ServiceTokens))))>> )

\* acc[k] = v on an ordinary object: "__proto__" is the accessor inherited
\* from Object.prototype, so assigning an object to it replaces the prototype
\* of acc and creates no own property; any other key is set in place or added.
SetProperty(acc, k, v) ==
    IF k = "__proto__" THEN acc ELSE DefineProperty(acc, k, v)

\* Object.entries(requiredTags).reduce((acc, [tagKey, allowedValues]) => ..., {})
RECURSIVE ReduceTags(_, _)
ReduceTags(entries, forKey) ==
    IF entries = <<>> THEN <<>>
    ELSE LET n == Len(entries)
         IN  SetProperty(ReduceTags(SubSeq(entries, 1, n - 1), forKey),
                         entries[n].key,
                         TagEntry(entries[n].key, entries[n].value, forKey))

TagPolicyContentOf(tags, forKey) ==
    JObject(<<Member("tags", JObject(ReduceTags(tags, forKey)))>>)

-----------------------------------------------------------------------------
(* JSON.stringify(value, null, 2)                                          *)

\* No string of the input domain holds a character that JSON escapes.
Quote(s) == "\"" \o s \o "\""

RECURSIVE Stringify(_, _)
RECURSIVE StringifyItems(_, _)
RECURSIVE StringifyMembers(_, _)

StringifyItems(xs, indent) ==
    IF Len(xs) = 1 THEN indent \o Stringify(xs[1], indent)
    ELSE StringifyItems(SubSeq(xs, 1, Len(xs) - 1), indent)
         \o ",\n" \o indent \o Stringify(xs[Len(xs)], indent)

StringifyMembers(ms, indent) ==
    LET last == ms[Len(ms)]
        text == indent \o Quote(last.key) \o ": " \o Stringify(last.value, indent)
    IN  IF Len(ms) = 1 THEN text
        ELSE StringifyMembers(SubSeq(ms, 1, Len(ms) - 1), indent) \o ",\n" \o text

Stringify(v, indent) ==
    CASE v.type = "string" -> Quote(v.str)
      [] v.type = "array"  ->
            IF v.items = <<>> THEN "[]"
            ELSE "[\n" \o StringifyItems(v.items, indent \o "  ")
                 \o "\n" \o indent \o "]"
      [] v.type = "object" ->
            IF v.members = <<>> THEN "{}"
            ELSE "{\n" \o StringifyMembers(v.members, indent \o "  ")
                 \o "\n" \o indent \o "}"

JsonStringify(v) == Stringify(v, "")

-----------------------------------------------------------------------------
(* The run of the program                                                  *)

\* Sequences over S of length at most n.
SeqsUpTo(S, n) == UNION {[1..k -> S] : k \in 0..n}

\* The members a requiredTags configuration value may hold, in text order.
RawMembers == {Member(k, vs) : k \in LabelNames, vs \in ValueLists}

RequiredTagsInputs ==
    {Undefined} \cup {Some(raw) : raw \in SeqsUpTo(RawMembers, MaxLabels)}

EnforcementModeInputs == {Undefined} \cup {Some(m) : m \in ModeStrings}

\* Before the first statement: the configuration and the organization are
\* given, nothing is computed or registered.
Init ==
    /\ cfgRequiredTags \in RequiredTagsInputs
    /\ cfgEnforcementMode \in EnforcementModeInputs
    /\ pc = "requiredTags"
    /\ requiredTags = <<>>
    /\ enforcementMode = ""
    /\ enforcedForKey = ""
    /\ tagPolicyContent = JObject(<<>>)
    /\ tagPolicy = Undefined
    /\ org = Undefined
    /\ policyAttachment = Undefined
    /\ exports = Undefined
    /\ awsPolicy = Undefined
    /\ awsAttachment = Undefined

\* line 9: const requiredTags = config.getObject(...) || { ... }
ReadRequiredTags ==
    /\ pc = "requiredTags"
    /\ requiredTags' = RequiredTagsOf(cfgRequiredTags)
    /\ pc' = "enforcementMode"
    /\ UNCHANGED <<awsPolicy, awsAttachment, cfgRequiredTags, cfgEnforcementMode,
                   enforcementMode, enforcedForKey, tagPolicyContent, tagPolicy, org,
                   policyAttachment, exports>>

\* line 27: const enforcementMode = config.get("enforcementMode") || "detective"
ReadEnforcementMode ==
    /\ pc = "enforcementMode"
    /\ enforcementMode' = EnforcementModeOf(cfgEnforcementMode)
    /\ pc' = "enforcedForKey"
    /\ UNCHANGED <<awsPolicy, awsAttachment, cfgRequiredTags, cfgEnforcementMode,
                   requiredTags, enforcedForKey, tagPolicyContent, tagPolicy, org,
                   policyAttachment, exports>>

\* lines 90-92: const enforcedForKey = ...
SelectEnforcedForKey ==
    /\ pc = "enforcedForKey"
    /\ enforcedForKey' = EnforcedForKeyOf(enforcementMode)
    /\ pc' = "tagPolicyContent"
    /\ UNCHANGED <<awsPolicy, awsAttachment, cfgRequiredTags, cfgEnforcementMode,
                   requiredTags, enforcementMode, tagPolicyContent, tagPolicy, org,
                   policyAttachment, exports>>

\* lines 94-114: const tagPolicyContent = { tags: ... }
BuildTagPolicyContent ==
    /\ pc = "tagPolicyContent"
    /\ tagPolicyContent' = TagPolicyContentOf(requiredTags, enforcedForKey)
    /\ pc' = "tagPolicy"
    /\ UNCHANGED <<awsPolicy, awsAttachment, cfgRequiredTags, cfgEnforcementMode,
                   requiredTags, enforcementMode, enforcedForKey, tagPolicy, org,
                   policyAttachment, exports>>

\* The arguments of new aws.organizations.Policy("required-tags-policy", ...).
PolicyArgs(mode, content) ==
    [ name        |-> "required-tags-policy",
      description |-> "Tag policy (" \o mode \o " mode) for required tags across "
                      \o ToString(Len(SUPPORTED_SERVICES)) \o " AWS services",
      type        |-> "TAG_POLICY",
      content     |-> JsonStringify(content) ]

\* lines 117-122: const tagPolicy = new aws.organizations.Policy(...)
CreateTagPolicy ==
    /\ pc = "tagPolicy"
    /\ tagPolicy' = Some(PolicyArgs(enforcementMode, tagPolicyContent))
    /\ pc' = "org"
    /\ UNCHANGED <<awsPolicy, awsAttachment, cfgRequiredTags, cfgEnforcementMode,
                   requiredTags, enforcementMode, enforcedForKey, tagPolicyContent, org,
                   policyAttachment, exports>>

\* line 125: const org = aws.organizations.getOrganizationOutput()
GetOrganization ==
    /\ pc = "org"
    /\ \E roots \in OrgRootsInputs : org' = Some([roots |-> roots])
    /\ pc' = "policyAttachment"
    /\ UNCHANGED <<awsPolicy, awsAttachment, cfgRequiredTags, cfgEnforcementMode,
                   requiredTags, enforcementMode, enforcedForKey, tagPolicyContent, tagPolicy,
                   policyAttachment, exports>>

\* An input of a resource: the output `property` of the resource registered
\* under the name `resource`, known once the engine has created it.
OutputOf(resource, property) == [resource |-> resource, property |-> property]

\* An input of a resource that is a plain value, known from the start.
Plain(value) == [resource |-> "", property |-> value]

\* org.roots[0].id: reading a property of an Output whose value is undefined
\* gives undefined.
FirstRootId(organization) ==
    IF organization.roots = <<>> THEN Undefined ELSE Some(organization.roots[1])

\* A variant of AttachmentArgs that names a policy by a fixed id instead of
\* the id output of the policy of this run.
AttachmentArgs_FixedPolicyId(policy, organization) ==
    [ policyId |-> Plain("p-existing"),
      targetId |-> FirstRootId(organization) ]

\* A variant of AttachmentArgs that passes the id of the policy as a plain
\* string, not as the id output of the policy resource of this run.
AttachmentArgs_PlainPolicyId(policy, organization) ==
    [ policyId |-> Plain("p-" \o policy.name),
      targetId |-> FirstRootId(organization) ]

\* The arguments of new aws.organizations.PolicyAttachment(...): tagPolicy.id,
\* the id output of the policy registered by this run, and the id of the
\* first root.
AttachmentArgs(policy, organization) ==
    [ policyId |-> OutputOf(policy.name, "id"),
      targetId |-> FirstRootId(organization) ]

\* lines 129-132: const policyAttachment = new aws.organizations.PolicyAttachment(...)
CreatePolicyAttachment ==
    /\ pc = "policyAttachment"
    /\ policyAttachment' = Some(AttachmentArgs(tagPolicy[1], org[1]))
    /\ pc' = "exports"
    /\ UNCHANGED <<awsPolicy, awsAttachment, cfgRequiredTags, cfgEnforcementMode,
                   requiredTags, enforcementMode, enforcedForKey, tagPolicyContent, tagPolicy,
                   org, exports>>

\* lines 135-140: the exported stack outputs
Export ==
    /\ pc = "exports"
    /\ exports' = Some([ policyName            |-> tagPolicy[1].name,
                         supportedServiceCount |-> Len(SUPPORTED_SERVICES),
                         requiredTagKeys       |-> Keys(requiredTags),
                         mode                  |-> enforcementMode ])
    /\ pc' = "done"
    /\ UNCHANGED <<awsPolicy, awsAttachment, cfgRequiredTags, cfgEnforcementMode,
                   requiredTags, enforcementMode, enforcedForKey, tagPolicyContent, tagPolicy,
                   org, policyAttachment>>

-----------------------------------------------------------------------------
(* The engine: create-or-update of the policy, then the attachment         *)

\* The id the organization assigns to the policy created for a resource.
AssignedId(resource) == "p-" \o resource

\* The inputs of the attachment are known: a plain value always, an output
\* of a resource once that resource is created.
Resolved(input) ==
    \/ input.resource = ""
    \/ awsPolicy # Undefined /\ awsPolicy[1].args.name = input.resource

ValueOf(input) ==
    IF input.resource = "" THEN input.property ELSE awsPolicy[1].id

\* The engine creates the registered policy and assigns its id.
EngineCreatePolicy ==
    /\ pc = "done"
    /\ tagPolicy # Undefined
    /\ awsPolicy = Undefined
    /\ awsPolicy' = Some([id |-> AssignedId(tagPolicy[1].name), args |-> tagPolicy[1]])
    /\ UNCHANGED <<awsAttachment, cfgRequiredTags, cfgEnforcementMode, pc,
                   requiredTags, enforcementMode, enforcedForKey,
                   tagPolicyContent, tagPolicy, org, policyAttachment, exports>>

\* The engine attaches the policy to the target once the inputs of the
\* registered attachment are known; it has no target to attach to when the
\* target id is undefined.
EngineAttachPolicy ==
    /\ pc = "done"
    /\ policyAttachment # Undefined
    /\ awsAttachment = Undefined
    /\ Resolved(policyAttachment[1].policyId)
    /\ policyAttachment[1].targetId # Undefined
    /\ awsAttachment' = Some([ policyId |-> ValueOf(policyAttachment[1].policyId),
                               targetId |-> policyAttachment[1].targetId[1] ])
    /\ UNCHANGED <<awsPolicy, cfgRequiredTags, cfgEnforcementMode, pc,
                   requiredTags, enforcementMode, enforcedForKey,
                   tagPolicyContent, tagPolicy, org, policyAttachment, exports>>

Next ==
    \/ ReadRequiredTags
    \/ ReadEnforcementMode
    \/ SelectEnforcedForKey
    \/ BuildTagPolicyContent
    \/ CreateTagPolicy
    \/ GetOrganization
    \/ CreatePolicyAttachment
    \/ Export
    \/ EngineCreatePolicy
    \/ EngineAttachPolicy

Spec == Init /\ [][Next]_vars

-----------------------------------------------------------------------------
(* Vocabulary of the properties                                            *)

\* tagPolicyContent has been computed by this run.
DocumentBuilt == pc \in {"tagPolicy", "org", "policyAttachment", "exports", "done"}

\* The label entries of a document: the properties of its "tags" object.
TagsOf(doc) == Get(doc.members, "tags").members

\* The label entries of the document of this run.
Entries == TagsOf(tagPolicyContent)

\* The properties of the i-th label entry.
Fields(i) == Entries[i].value.members

\* The catalog mapped through "<service>:ALL_SUPPORTED", in catalog order.
CatalogTokens ==
    [i \in 1..Len(SUPPORTED_SERVICES) |-> SUPPORTED_SERVICES[i] \o ":ALL_SUPPORTED"]

ModeAbsent == cfgEnforcementMode = Undefined

IsBlank(s) == s \in {"", " "}

-----------------------------------------------------------------------------
(* C1: every enforcement-mode string that is present and is not a          *)
(* recognized mode name is rejected: no document is produced whose         *)
(* entries carry the enforce field or the report field.  The strings       *)
(* taken as unrecognized here are those that are neither a mode name of    *)
(* the program (detective, preventive) nor one of the specification        *)
(* (report, enforce).                                                      *)
C1_UnrecognizedModeYieldsNoDocument ==
    ( /\ ~ModeAbsent
      /\ cfgEnforcementMode[1] \notin {"detective", "preventive", "report", "enforce"}
      /\ DocumentBuilt )
    => \A i \in DOMAIN Entries :
          ~HasKey(Fields(i), EnforceKey) /\ ~HasKey(Fields(i), ReportKey)

-----------------------------------------------------------------------------
-----------------------------------------------------------------------------
(* C3: the example requirement set {"Environment": ["Dev","Prod"],         *)
(* "Owner": []} compiles to entries whose applicability field is the       *)
(* report field under one mode literal and enforced_for under the other.   *)

ExampleTags == << Member("Environment", <<"Dev", "Prod">>), Member("Owner", <<>>) >>

ExampleCompiled == cfgRequiredTags = Some(ExampleTags) /\ DocumentBuilt

AllEntriesUse(k, other) ==
    /\ Keys(Entries) = <<"Environment", "Owner">>
    /\ \A i \in DOMAIN Entries : HasKey(Fields(i), k) /\ ~HasKey(Fields(i), other)

\* The claim as stated: the literals are "report" and "enforce".
C3_ReportEnforceLiterals ==
    ExampleCompiled
    => /\ cfgEnforcementMode = Some("report") => AllEntriesUse(ReportKey, EnforceKey)
       /\ cfgEnforcementMode = Some("enforce") => AllEntriesUse(EnforceKey, ReportKey)

\* The claim as amended: the literals are "detective" and "preventive".
C3_DetectivePreventiveLiterals ==
    /\ (pc \notin {"requiredTags", "enforcementMode", "enforcedForKey"})
       => /\ cfgEnforcementMode = Some("detective") => enforcedForKey = ReportKey
          /\ cfgEnforcementMode = Some("preventive") => enforcedForKey = EnforceKey
    /\ ExampleCompiled
       => /\ cfgEnforcementMode = Some("detective")
                => AllEntriesUse(ReportKey, EnforceKey)
          /\ cfgEnforcementMode = Some("preventive")
                => AllEntriesUse(EnforceKey, ReportKey)

C3_Witness ==
    /\ ExampleCompiled
    /\ pc = "done"
    /\ cfgEnforcementMode = Some("preventive")
    /\ AllEntriesUse(EnforceKey, ReportKey)

-----------------------------------------------------------------------------
(* C4: for every label of the requirement set, the compiled entry has a    *)
(* tag_value field whose @@assign list is exactly the allowed values in    *)
(* their order when there are some, and no tag_value field when there are  *)
(* none.                                                                   *)

\* The entry of label k, when the document has one.
EntryFields(k) == Get(Entries, k).members

C4_TagValueOfEveryLabel ==
    DocumentBuilt
    => \A i \in DOMAIN requiredTags :
          LET k  == requiredTags[i].key
              vs == requiredTags[i].value
          IN  IF vs # <<>>
              THEN /\ HasKey(Entries, k)
                   /\ HasKey(EntryFields(k), "tag_value")
                   /\ Get(EntryFields(k), "tag_value") = Assign(JArray(Strings(vs)))
              ELSE HasKey(Entries, k) => ~HasKey(EntryFields(k), "tag_value")

\* What does hold: the rule is kept by every label that has an entry.
C4_TagValueOfEveryCompiledEntry ==
    DocumentBuilt
    => \A i \in DOMAIN requiredTags :
          LET k  == requiredTags[i].key
              vs == requiredTags[i].value
          IN  HasKey(Entries, k)
              => IF vs # <<>>
                 THEN /\ HasKey(EntryFields(k), "tag_value")
                      /\ Get(EntryFields(k), "tag_value") = Assign(JArray(Strings(vs)))
                 ELSE ~HasKey(EntryFields(k), "tag_value")

-----------------------------------------------------------------------------
(* C5: in every label entry of the document, whatever its name and allowed *)
(* values, the @@assign list of the applicability field is the catalog     *)
(* mapped through "<service>:ALL_SUPPORTED", in catalog order and of the   *)
(* catalog's length; all entries carry the same list.                      *)

\* The value of the applicability field of the i-th entry.
Applicability(i) ==
    Get(Fields(i), CHOOSE k \in {ReportKey, EnforceKey} : HasKey(Fields(i), k))

-----------------------------------------------------------------------------
(* C6: the document compiled in report mode and the document compiled in   *)
(* enforce mode from the same requirement set differ only in the name of   *)
(* the applicability field: the label entries and their order, every       *)
(* tag_key, every tag_value (present or omitted) and the applicability     *)
(* list are the same.                                                      *)

\* The document the program computes from tags when the mode is configured as m.
CompiledUnder(tags, m) ==
    TagPolicyContentOf(tags, EnforcedForKeyOf(EnforcementModeOf(Some(m))))

\* Documents a and b are equal but for the name of one field of each entry,
\* which is ka in a and kb in b.
SameButFieldName(a, b, ka, kb) ==
    /\ Keys(a.members) = Keys(b.members)
    /\ Keys(TagsOf(a)) = Keys(TagsOf(b))
    /\ \A i \in DOMAIN TagsOf(a) :
          LET fa == TagsOf(a)[i].value.members
              fb == TagsOf(b)[i].value.members
          IN  /\ Len(fa) = Len(fb)
              /\ \A j \in DOMAIN fa :
                    /\ fa[j].value = fb[j].value
                    /\ fb[j].key = (IF fa[j].key = ka THEN kb ELSE fa[j].key)
              /\ \E j \in DOMAIN fa : fa[j].key = ka
              /\ ~HasKey(fb, ka)

C6_ModesDifferOnlyInFieldName ==
    DocumentBuilt
    => /\ enforcementMode = "detective"
            => SameButFieldName(tagPolicyContent,
                                CompiledUnder(requiredTags, "preventive"),
                                ReportKey, EnforceKey)
       /\ enforcementMode = "preventive"
            => SameButFieldName(CompiledUnder(requiredTags, "detective"),
                                tagPolicyContent,
                                ReportKey, EnforceKey)

C6_Witness ==
    /\ pc = "done"
    /\ enforcementMode = "detective"
    /\ Len(Entries) = 2
    /\ HasKey(Fields(1), "tag_value")
    /\ ~HasKey(Fields(2), "tag_value")
    /\ TagsOf(CompiledUnder(requiredTags, "preventive")) # Entries

-----------------------------------------------------------------------------
(* C8: the document has exactly one top-level key, "tags", and under it    *)
(* exactly one entry per label of the requirement set, keyed by the label  *)
(* name, in the set's order; the tag_key field of each entry assigns that  *)
(* same name.                                                              *)
C8_OneEntryPerLabel ==
    DocumentBuilt
    => /\ Keys(tagPolicyContent.members) = <<"tags">>
       /\ Keys(Entries) = Keys(requiredTags)
       /\ \A i \in DOMAIN Entries :
             /\ HasKey(Fields(i), "tag_key")
             /\ Get(Fields(i), "tag_key") = Assign(JString(Entries[i].key))

-----------------------------------------------------------------------------
(* C9: an empty raw configuration falls back to the built-in default set.  *)

NoRequiredTags == cfgRequiredTags = Undefined

EmptyRequiredTags == cfgRequiredTags = Some(<<>>)

\* The document has exactly the entries of the built-in set: Environment
\* restricted to three values, then Owner, CostCenter and Project unrestricted.
DefaultEntries ==
    /\ Keys(Entries) = <<"Environment", "Owner", "CostCenter", "Project">>
    /\ HasKey(Fields(1), "tag_value")
    /\ Get(Fields(1), "tag_value")
         = Assign(JArray(<<JString("Development"), JString("Staging"),
                           JString("Production")>>))
    /\ \A i \in 2..4 : ~HasKey(Fields(i), "tag_value")

\* The claim as stated: no requiredTags, or a mapping with no labels, gives
\* the default entries, never a document with no entries.
C9_EmptyConfigurationFallsBack ==
    (DocumentBuilt /\ (NoRequiredTags \/ EmptyRequiredTags))
    => (DefaultEntries /\ Entries # <<>>)

\* The claim as amended: only a missing requiredTags gives the default
\* entries; a mapping with no labels is compiled as it is.
C9_MissingConfigurationFallsBack ==
    DocumentBuilt
    => /\ NoRequiredTags => DefaultEntries
       /\ EmptyRequiredTags => Entries = <<>>

C9_Witness ==
    /\ NoRequiredTags
    /\ pc = "done"
    /\ Len(Entries) = 4
    /\ requiredTags = DefaultRequiredTags

-----------------------------------------------------------------------------
(* C10: if a label name or an allowed value of the raw configuration is    *)
(* empty or whitespace-only, the run ends without registering the policy   *)
(* or the attachment: no document is handed to the engine.                 *)

BlankInConfiguration ==
    /\ cfgRequiredTags # Undefined
    /\ \E i \in DOMAIN cfgRequiredTags[1] :
          \/ IsBlank(cfgRequiredTags[1][i].key)
          \/ \E j \in DOMAIN cfgRequiredTags[1][i].value :
                IsBlank(cfgRequiredTags[1][i].value[j])

C10_BlankRejected ==
    BlankInConfiguration => (tagPolicy = Undefined /\ policyAttachment = Undefined)

-----------------------------------------------------------------------------
(* C11: a raw configuration in which the same label name occurs twice is   *)
(* rejected before any document is produced; it is never compiled with one *)
(* of the two occurrences winning.                                         *)

DuplicateInConfiguration ==
    /\ cfgRequiredTags # Undefined
    /\ \E i, j \in DOMAIN cfgRequiredTags[1] :
          i # j /\ cfgRequiredTags[1][i].key = cfgRequiredTags[1][j].key

C11_DuplicateRejected ==
    DuplicateInConfiguration => (~DocumentBuilt /\ tagPolicy = Undefined)

-----------------------------------------------------------------------------
(* C12: every run produces exactly one policy attachment, and the policy   *)
(* it names is the policy registered by that same run; an attachment never *)
(* names a policy this run did not register.                               *)

AttachmentStatementDone == pc \in {"exports", "done"}

C12_OneAttachmentOfThisPolicy ==
    /\ AttachmentStatementDone
         => /\ policyAttachment # Undefined
            /\ tagPolicy # Undefined
            /\ policyAttachment[1].policyId = OutputOf(tagPolicy[1].name, "id")
    /\ ~AttachmentStatementDone => policyAttachment = Undefined

C12_Witness ==
    /\ pc = "done"
    /\ policyAttachment # Undefined
    /\ policyAttachment[1].policyId.resource = "required-tags-policy"
    /\ policyAttachment[1].targetId = Some("r-root")
    /\ tagPolicy[1].name = "required-tags-policy"

-----------------------------------------------------------------------------
(* C13: an attachment is never constructed with an empty target: when the  *)
(* organization lookup yields no root, no attachment is registered with    *)
(* the engine.                                                             *)

NoRoot == org # Undefined /\ org[1].roots = <<>>

C13_NoAttachmentWithoutTarget ==
    NoRoot => policyAttachment = Undefined

-----------------------------------------------------------------------------
(* C14: what the program does when enforcementMode is not configured.      *)

-----------------------------------------------------------------------------
(* C15: the @@assign list of the applicability field of every label entry. *)

\* The strings of the @@assign list of the applicability field of entry i.
ApplicabilityTokens(i) ==
    LET items == Get(Applicability(i).members, "@@assign").items
    IN  [n \in DOMAIN items |-> items[n].str]

Wildcard == "*@@all_supported*"

-----------------------------------------------------------------------------
(* C16: in every run the policy attachment is made only after the policy   *)
(* has been created and its id assigned, never before; and the content     *)
(* with which the policy is created is the serialization of the document   *)
(* compiled in this run.                                                   *)

\* The step in which the engine makes the attachment.
AttachStep == awsAttachment = Undefined /\ awsAttachment' # Undefined

\* The step in which the engine creates the policy.
CreateStep == awsPolicy = Undefined /\ awsPolicy' # Undefined

\* The document this run compiles from its configuration.
DocumentOfThisRun ==
    TagPolicyContentOf(RequiredTagsOf(cfgRequiredTags),
                       EnforcedForKeyOf(EnforcementModeOf(cfgEnforcementMode)))

C16_AttachAfterCreate ==
    [][ /\ AttachStep
          => /\ awsPolicy # Undefined
             /\ awsPolicy[1].args = tagPolicy[1]
             /\ awsAttachment'[1].policyId = awsPolicy[1].id
        /\ CreateStep
          => /\ awsAttachment = Undefined
             /\ tagPolicyContent = DocumentOfThisRun
             /\ awsPolicy'[1].args.content = JsonStringify(tagPolicyContent)
      ]_vars

C16_Witness ==
    /\ awsPolicy # Undefined
    /\ awsAttachment # Undefined
    /\ awsAttachment[1].policyId = awsPolicy[1].id
    /\ Len(Entries) = 2
    /\ awsPolicy[1].args.content = JsonStringify(DocumentOfThisRun)

-----------------------------------------------------------------------------
(* C17: the default of the enforcement mode applies only to a mode that is *)
(* absent from the configuration; a mode that is present and is the empty  *)
(* string is not replaced by the default, and its document is not a report *)
(* document.                                                               *)

\* The configuration holds the empty string as enforcement mode.
ModeEmptyString == cfgEnforcementMode = Some("")

\* The enforcement mode has been read from the configuration.
ModeRead == pc # "requiredTags" /\ pc # "enforcementMode"

C17_EmptyModeNotDefaulted ==
    (ModeEmptyString /\ ModeRead)
    => /\ enforcementMode # EnforcementModeOf(Undefined)
       /\ enforcedForKey # ReportKey
       /\ DocumentBuilt
            => \A i \in DOMAIN Entries : ~HasKey(Fields(i), ReportKey)

-----------------------------------------------------------------------------
(* C18: the catalog of supported services has no duplicate entries, and    *)
(* every entry is a non-empty identifier of lowercase letters, digits and  *)
(* hyphens; hence the token list of the applicability field of every label *)
(* entry has no duplicate tokens.                                          *)

IdentifierChars ==
    { "a", "b", "c", "d", "e", "f", "g", "h", "i", "j", "k", "l", "m",
      "n", "o", "p", "q", "r", "s", "t", "u", "v", "w", "x", "y", "z",
      "0", "1", "2", "3", "4", "5", "6", "7", "8", "9", "-" }

LowercaseLetters ==
    { "a", "b", "c", "d", "e", "f", "g", "h", "i", "j", "k", "l", "m",
      "n", "o", "p", "q", "r", "s", "t", "u", "v", "w", "x", "y", "z" }

\* s is a non-empty identifier that starts with a lowercase letter and has
\* no character outside IdentifierChars.
IsLowercaseIdentifier(s) ==
    /\ Len(s) > 0
    /\ SubSeq(s, 1, 1) \in LowercaseLetters
    /\ \A n \in 1..Len(s) : SubSeq(s, n, n) \in IdentifierChars

\* No two positions of the sequence hold the same element.
NoDuplicates(seq) == Cardinality({seq[n] : n \in DOMAIN seq}) = Len(seq)

CatalogWellFormed ==
    /\ NoDuplicates(SUPPORTED_SERVICES)
    /\ \A n \in DOMAIN SUPPORTED_SERVICES :
          IsLowercaseIdentifier(SUPPORTED_SERVICES[n])

C18_CatalogAndTokensDistinct ==
    /\ CatalogWellFormed
    /\ DocumentBuilt
         => \A i \in DOMAIN Entries : NoDuplicates(ApplicabilityTokens(i))

C18_Witness ==
    /\ pc = "done"
    /\ Len(Entries) = 2
    /\ Len(ApplicabilityTokens(1)) = Len(SUPPORTED_SERVICES)
    /\ Len(ApplicabilityTokens(2)) = 44
    /\ ApplicabilityTokens(1)[1] = "access-analyzer:ALL_SUPPORTED"
    /\ awsAttachment # Undefined

-----------------------------------------------------------------------------
(* C19: in every compiled document each label entry has exactly one        *)
(* applicability field, "*@@report_required_tag_for*" or "enforced_for",   *)
(* never both and never neither, and all entries of the document use the   *)
(* same one: no document mixes report entries with enforce entries.        *)

\* The positions of the fields of entry i whose name is k.
FieldsNamed(i, k) == {n \in DOMAIN Fields(i) : Fields(i)[n].key = k}

Reports(i) == FieldsNamed(i, ReportKey) # {}

Enforces(i) == FieldsNamed(i, EnforceKey) # {}

C19_OneApplicabilityFieldPerDocument ==
    DocumentBuilt
    => /\ \A i \in DOMAIN Entries :
             /\ Cardinality(FieldsNamed(i, ReportKey)
                              \cup FieldsNamed(i, EnforceKey)) = 1
             /\ Reports(i) # Enforces(i)
       /\ \A i, j \in DOMAIN Entries :
             /\ Reports(i) <=> Reports(j)
             /\ Enforces(i) <=> Enforces(j)
       /\ \A i \in DOMAIN Entries : HasKey(Fields(i), enforcedForKey)

C19_Witness ==
    /\ pc = "done"
    /\ Len(Entries) = 2
    /\ Enforces(1) /\ Enforces(2)
    /\ HasKey(Fields(1), "tag_value")
    /\ ~HasKey(Fields(2), "tag_value")
    /\ enforcementMode = "preventive"

=============================================================================
